---------------------------- MODULE Spec2Model ----------------------------
(***************************************************************************)
(* A model of src/player.py: the Hand, the SolutionMatcher, the LogBook    *)
(* (per-card elimination map, deduced Solution, per-category arrays), the  *)
(* Player turn machine and the ComputerPlayer's multi-turn movement.       *)
(*                                                                         *)
(* Python's None is modelled by a value of the same shape as the values it *)
(* stands in for (NoCard, NoRoom, NoPosition, NoPath), so that every       *)
(* comparison is between values of one kind.                               *)
(***************************************************************************)
EXTENDS Integers, Sequences, FiniteSets, TLC

\* ------------------------------------------------------------------ bounds
\* Number of character and room cards in play (logged, dealt or guessed) in
\* SpecBook and SpecDeal, counted in the order character 1, room 1,
\* character 2, room 2, ...; every weapon card is in play.
MaxOtherCards == 2
\* Number of categories whose cards are logged in SpecLog (over the full deck).
MaxCategoriesLogged == 1
\* Largest dice roll, longest path the board returns, and the number of rooms
\* (the unknown rooms of lowest value) the board returns a path to.
MaxRoll == 3
MaxDistance == 5
MaxTargets == 2
\* Longest path handed to move_path directly.
MaxPathLen == 2
\* Number of candidates (those of lowest value) that random.choice picks from
\* in decide_weapon_guess and decide_character_guess.
MaxChoices == 1
\* Number of cards eliminated in Spec, after which no card is dealt and no
\* guess is refuted.
MaxEliminated == 3

\* ------------------------------------------------------- cards and the deck
WEAPON == "WEAPON"
ROOM == "ROOM"
CHARACTER == "CHARACTER"
CardTypes == {WEAPON, ROOM, CHARACTER}

\* np.zeros((6,)), np.zeros((6,)), np.zeros((9,)): one entry per card value.
NumWeapons == 6
NumCharacters == 6
NumRooms == 9
\* np.ones((6,)) in found_solution, for all three categories.
FoundSolutionLen == 6

Card(t, v) == [type |-> t, value |-> v]
NoCard == [type |-> "None", value |-> 0]

CardsOf(t) ==
  IF t = WEAPON THEN {Card(WEAPON, v) : v \in 1..NumWeapons}
  ELSE IF t = CHARACTER THEN {Card(CHARACTER, v) : v \in 1..NumCharacters}
  ELSE {Card(ROOM, v) : v \in 1..NumRooms}

Deck == CardsOf(WEAPON) \cup CardsOf(CHARACTER) \cup CardsOf(ROOM)

\* Solution(character, weapon, room); a slot that is None holds NoCard.
Solution(c, w, r) == [character |-> c, weapon |-> w, room |-> r]
EmptySolution == Solution(NoCard, NoCard, NoCard)
is_complete(s) == s.character # NoCard /\ s.weapon # NoCard /\ s.room # NoCard
is_empty(s) == s.character = NoCard /\ s.weapon = NoCard /\ s.room = NoCard

\* The slot of a Solution for a card type.
Slot(s, t) == IF t = CHARACTER THEN s.character ELSE IF t = WEAPON THEN s.weapon ELSE s.room

NoExc == "None"

\* ------------------------------------------------------------------ LogBook
NewLogBook ==
  [log_book   |-> [c \in Deck |-> FALSE],
   solution   |-> EmptySolution,
   weapons    |-> [i \in 1..NumWeapons |-> 0],
   characters |-> [i \in 1..NumCharacters |-> 0],
   rooms      |-> [i \in 1..NumRooms |-> 0]]

\* get(card_type, known): the cards of the type whose flag equals known.
get(lb, t, known) == {c \in Deck : c.type = t /\ lb.log_book[c] = known}

TheOne(S) == CHOOSE c \in S : TRUE

\* find_solution that re-derives a slot that is already set.
find_solution_stale(lb, t) ==
  IF is_complete(lb.solution) THEN lb
  ELSE LET remaining == get(lb, t, FALSE) IN
    IF t = CHARACTER /\ Cardinality(remaining) = 1
      THEN [lb EXCEPT !.solution.character = TheOne(remaining)]
    ELSE IF t = ROOM /\ Cardinality(remaining) = 1
      THEN [lb EXCEPT !.solution.room = TheOne(remaining)]
    ELSE IF t = WEAPON /\ Cardinality(remaining) = 1
      THEN [lb EXCEPT !.solution.weapon = TheOne(remaining)]
    ELSE lb

\* find_solution whose third test repeats the room's: no weapon is deduced.
find_solution_copied(lb, t) ==
  IF is_complete(lb.solution) THEN lb
  ELSE LET remaining == get(lb, t, FALSE) IN
    IF t = CHARACTER /\ lb.solution.character = NoCard /\ Cardinality(remaining) = 1
      THEN [lb EXCEPT !.solution.character = TheOne(remaining)]
    ELSE IF t = ROOM /\ lb.solution.room = NoCard /\ Cardinality(remaining) = 1
      THEN [lb EXCEPT !.solution.room = TheOne(remaining)]
    ELSE lb

\* LogBook.find_solution(card_type).
find_solution(lb, t) ==
  IF is_complete(lb.solution) THEN lb
  ELSE LET remaining == get(lb, t, FALSE) IN
    IF t = CHARACTER /\ lb.solution.character = NoCard /\ Cardinality(remaining) = 1
      THEN [lb EXCEPT !.solution.character = TheOne(remaining)]
    ELSE IF t = ROOM /\ lb.solution.room = NoCard /\ Cardinality(remaining) = 1
      THEN [lb EXCEPT !.solution.room = TheOne(remaining)]
    ELSE IF t = WEAPON /\ lb.solution.weapon = NoCard /\ Cardinality(remaining) = 1
      THEN [lb EXCEPT !.solution.weapon = TheOne(remaining)]
    ELSE lb

has_solution(lb) == is_complete(lb.solution)

is_room_known(lb, r) == lb.log_book[Card(ROOM, r)]

\* The array of a card's category.
ArrayOf(lb, t) ==
  IF t = WEAPON THEN lb.weapons ELSE IF t = CHARACTER THEN lb.characters ELSE lb.rooms

\* arr[index] = v, index zero-based and within the array.
SetAt(arr, index, v) == [arr EXCEPT ![index + 1] = v]

\* log with the flag flipped instead of set.
log_toggle(lb, card) ==
  IF card = NoCard THEN [lb |-> lb, exc |-> NoExc]
  ELSE [lb |-> find_solution([lb EXCEPT !.log_book[card] = ~@], card.type), exc |-> NoExc]

\* log with find_solution run before the card is marked.
log_find_first(lb, card) ==
  IF card = NoCard THEN [lb |-> lb, exc |-> NoExc]
  ELSE [lb |-> [find_solution(lb, card.type) EXCEPT !.log_book[card] = TRUE], exc |-> NoExc]

\* log(card): the LogBook afterwards and the exception raised, if any.  An index
\* past the end of the category's array raises IndexError after the map and
\* the Solution were updated.
log(lb, card) ==
  IF card = NoCard THEN [lb |-> lb, exc |-> NoExc]
  ELSE
    LET marked == [lb EXCEPT !.log_book[card] = TRUE]
        found  == find_solution(marked, card.type)
        index  == card.value - 1
    IN IF index >= Len(ArrayOf(found, card.type))
         THEN [lb |-> found, exc |-> "IndexError"]
       ELSE IF card.type = WEAPON
         THEN [lb |-> [found EXCEPT !.weapons = SetAt(found.weapons, index, 1)], exc |-> NoExc]
       ELSE IF card.type = CHARACTER
         THEN [lb |-> [found EXCEPT !.characters = SetAt(found.characters, index, 1)], exc |-> NoExc]
       ELSE [lb |-> [found EXCEPT !.rooms = SetAt(found.rooms, index, 1)], exc |-> NoExc]

Ones == [i \in 1..FoundSolutionLen |-> 1]

\* found_solution(solution), for a complete candidate: three independent ifs.
found_character(lb, s) ==
  IF lb.solution.character = NoCard /\ ~lb.log_book[s.character]
    THEN [lb EXCEPT !.solution.character = s.character,
                    !.characters = SetAt(Ones, s.character.value - 1, 0)]
    ELSE lb

found_weapon(lb, s) ==
  IF lb.solution.weapon = NoCard /\ ~lb.log_book[s.weapon]
    THEN [lb EXCEPT !.solution.weapon = s.weapon,
                    !.weapons = SetAt(Ones, s.character.value - 1, 0)]
    ELSE lb

found_room(lb, s) ==
  IF lb.solution.room = NoCard /\ ~lb.log_book[s.room]
    THEN [lb EXCEPT !.solution.room = s.room,
                    !.rooms = SetAt(Ones, s.character.value - 1, 0)]
    ELSE lb

\* found_solution with its three ifs chained as if / elif / elif.
found_solution_elif(lb, s) ==
  IF lb.solution.character = NoCard /\ ~lb.log_book[s.character] THEN found_character(lb, s)
  ELSE IF lb.solution.weapon = NoCard /\ ~lb.log_book[s.weapon] THEN found_weapon(lb, s)
  ELSE found_room(lb, s)

found_solution(lb, s) == found_room(found_weapon(found_character(lb, s), s), s)

\* --------------------------------------------------------------------- Hand
\* The lists of a Hand are only appended to and searched (list.index), so each
\* is kept as the set of its elements.
NewHand == [all |-> {}, weapons |-> {}, rooms |-> {}, characters |-> {}]

add(h, card) ==
  LET a == [h EXCEPT !.all = @ \cup {card}] IN
  IF card.type = WEAPON THEN [a EXCEPT !.weapons = @ \cup {card}]
  ELSE IF card.type = ROOM THEN [a EXCEPT !.rooms = @ \cup {card}]
  ELSE IF card.type = CHARACTER THEN [a EXCEPT !.characters = @ \cup {card}]
  ELSE a

\* has_card(card) of a card that is not None: list.index raises ValueError,
\* which is caught, exactly when the card is not in the list.
has_card(h, card) ==
  IF card.type = WEAPON THEN card \in h.weapons
  ELSE IF card.type = ROOM THEN card \in h.rooms
  ELSE IF card.type = CHARACTER THEN card \in h.characters
  ELSE TRUE

\* has_card(None) reads None.type: AttributeError, which the except clause
\* (ValueError only) does not catch.
has_card_raises(card) == card = NoCard

\* ---------------------------------------------------------- SolutionMatcher
\* compare_to_hand(hand, solution): the matches returned, or the exception
\* raised by the first has_card of an unset slot (weapon, room, character).
compare_to_hand(h, s) ==
  IF has_card_raises(s.weapon) \/ has_card_raises(s.room) \/ has_card_raises(s.character)
    THEN [ret |-> EmptySolution, exc |-> "AttributeError"]
  ELSE [ret |-> Solution(IF has_card(h, s.character) THEN s.character ELSE NoCard,
                         IF has_card(h, s.weapon) THEN s.weapon ELSE NoCard,
                         IF has_card(h, s.room) THEN s.room ELSE NoCard),
        exc |-> NoExc]

\* show_card without the clearing of the slots that are not shown.
show_card_all(h, guess) ==
  LET m == compare_to_hand(h, guess) IN
  IF m.exc # NoExc THEN [ret |-> EmptySolution, isNone |-> FALSE, exc |-> m.exc]
  ELSE IF is_empty(m.ret) THEN [ret |-> EmptySolution, isNone |-> TRUE, exc |-> NoExc]
  ELSE [ret |-> m.ret, isNone |-> FALSE, exc |-> NoExc]

\* show_card(guess): isNone is a returned None.
show_card(h, guess) ==
  LET m == compare_to_hand(h, guess) IN
  IF m.exc # NoExc THEN [ret |-> EmptySolution, isNone |-> FALSE, exc |-> m.exc]
  ELSE IF is_empty(m.ret) THEN [ret |-> EmptySolution, isNone |-> TRUE, exc |-> NoExc]
  ELSE IF m.ret.character # NoCard
    THEN [ret |-> [m.ret EXCEPT !.weapon = NoCard, !.room = NoCard],
          isNone |-> FALSE, exc |-> NoExc]
  ELSE IF m.ret.weapon # NoCard
    THEN [ret |-> [m.ret EXCEPT !.character = NoCard, !.room = NoCard],
          isNone |-> FALSE, exc |-> NoExc]
  ELSE [ret |-> [m.ret EXCEPT !.weapon = NoCard, !.character = NoCard],
        isNone |-> FALSE, exc |-> NoExc]

\* ------------------------------------------------------------------- state
VARIABLES
  hand,            \* Player.hand
  log_book,        \* Player.log_book, a LogBook
  room,            \* Player.room: a room value, or NoRoom
  position,        \* Player.position: <<row, col>>, or NoPosition
  remaining_path,  \* ComputerPlayer.remaining_path: a RoomPath, or NoPath
  last,            \* history: the last operation, its arguments, result, exception
  journey          \* history: the path last chosen by use_roll and the rolls since

vars == <<hand, log_book, room, position, remaining_path, last, journey>>

NoRoom == 0
NoPosition == <<>>
Rooms == 1..NumRooms

\* --------------------------------------------------------------- RoomPath
Space(row, col) == [kind |-> "Space", row |-> row, col |-> col, room |-> NoRoom]
RoomPosition(r) == [kind |-> "RoomPosition", row |-> 0, col |-> 0, room |-> r]
\* A step that is neither a Space nor a RoomPosition.
OtherStep == [kind |-> "Other", row |-> 0, col |-> 0, room |-> NoRoom]
\* RoomPath(room, path): its distance is the number of its steps.
RoomPath(r, path) == [room |-> r, path |-> path, distance |-> Len(path)]
NoPath == [room |-> NoRoom, path |-> <<>>, distance |-> 0]

\* The board: to a target room at distance d, d - 1 free spaces of the
\* corridor to that room and then the room's entry.
CorridorPath(t, d) ==
  RoomPath(t, [i \in 1..d |-> IF i < d THEN Space(t, d - i) ELSE RoomPosition(t)])

Lowest(S, n) == {x \in S : Cardinality({y \in S : y < x}) < n}

\* Board.room_paths_from_position / room_paths_from_room: the paths on offer.
room_paths(unknown_rooms) ==
  {CorridorPath(t, d) : t \in Lowest(unknown_rooms, MaxTargets), d \in 1..MaxDistance}

NoOp == [op |-> "reset", exc |-> NoExc, card |-> NoCard, guess |-> EmptySolution,
         ret |-> EmptySolution, isNone |-> FALSE, roll |-> 0, path |-> NoPath]
NoJourney == [chosen |-> NoPath, rolls |-> <<>>, walked |-> <<>>]

\* reset() of a ComputerPlayer constructed with remaining_path = None.
Init ==
  /\ hand = NewHand
  /\ log_book = NewLogBook
  /\ room = NoRoom
  /\ position = NoPosition
  /\ remaining_path = NoPath
  /\ last = NoOp
  /\ journey = NoJourney

\* ------------------------------------------------------- LogBook operations
\* The character and room cards in play, and the cards logged: those and
\* every weapon.
OtherCard(i) == Card(IF i % 2 = 1 THEN CHARACTER ELSE ROOM, (i + 1) \div 2)
OtherCards == {OtherCard(i) : i \in 1..MaxOtherCards}
InputCards == CardsOf(WEAPON) \cup OtherCards
\* The candidates of found_solution and the guesses: the characters and rooms
\* in play with the weapon of lowest value.
Candidates ==
  {Solution(c, w, r) : c \in {x \in OtherCards : x.type = CHARACTER},
                       w \in {Card(WEAPON, 1)},
                       r \in {x \in OtherCards : x.type = ROOM}}

Log(card) ==
  LET r == log(log_book, card) IN
  /\ log_book' = r.lb
  /\ last' = [NoOp EXCEPT !.op = "log", !.exc = r.exc]
  /\ UNCHANGED <<hand, room, position, remaining_path, journey>>

FoundSolution(s) ==
  /\ log_book' = found_solution(log_book, s)
  /\ last' = [NoOp EXCEPT !.op = "found_solution"]
  /\ UNCHANGED <<hand, room, position, remaining_path, journey>>

NextBook ==
  \/ \E card \in InputCards : Log(card)
  \/ \E s \in Candidates : FoundSolution(s)

SpecBook == Init /\ [][NextBook]_vars

\* Only log calls, over the whole deck, within MaxCategoriesLogged categories.
LoggedTypes == {t \in CardTypes : get(log_book, t, TRUE) # {}}

LogOnly(card) ==
  /\ Cardinality(LoggedTypes \cup {card.type}) <= MaxCategoriesLogged
  /\ Log(card)

NextLog == \E card \in Deck : LogOnly(card)

SpecLog == Init /\ [][NextLog]_vars

\* give_card(card): hand.add, then log_book.log.
GiveCard(card) ==
  LET r == log(log_book, card) IN
  /\ hand' = add(hand, card)
  /\ log_book' = r.lb
  /\ last' = [NoOp EXCEPT !.op = "give_card", !.exc = r.exc]
  /\ UNCHANGED <<room, position, remaining_path, journey>>

\* _log_guess_match that logs the guessed character for the character shown.
log_guess_match_guess(lb, guess, isNone, match) ==
  IF isNone THEN [lb |-> found_solution(lb, guess), exc |-> NoExc]
  ELSE
    LET c == log(lb, guess.character) IN
    IF c.exc # NoExc THEN c
    ELSE LET w == log(c.lb, match.weapon) IN
      IF w.exc # NoExc THEN w
      ELSE log(w.lb, match.room)

\* _log_guess_match(guess, match, skipped_count): found_solution(guess) for a
\* match that is None, else the three slots of the match logged in the order
\* character, weapon, room; a log that raises ends the call.
log_guess_match(lb, guess, isNone, match) ==
  IF isNone THEN [lb |-> found_solution(lb, guess), exc |-> NoExc]
  ELSE
    LET c == log(lb, match.character) IN
    IF c.exc # NoExc THEN c
    ELSE LET w == log(c.lb, match.weapon) IN
      IF w.exc # NoExc THEN w
      ELSE log(w.lb, match.room)

\* What the director answers to a guess: None, or one card of the guess.
Shown(guess) ==
  {[EmptySolution EXCEPT !.character = guess.character],
   [EmptySolution EXCEPT !.weapon = guess.weapon],
   [EmptySolution EXCEPT !.room = guess.room]}

LogGuessMatch(guess, isNone, match) ==
  LET r == log_guess_match(log_book, guess, isNone, match) IN
  /\ log_book' = r.lb
  /\ last' = [NoOp EXCEPT !.op = "log_guess_match", !.exc = r.exc]
  /\ UNCHANGED <<hand, room, position, remaining_path, journey>>

\* The cards dealt: the characters and rooms in play.
DealtCards == OtherCards

NextDeal ==
  \/ \E card \in InputCards : Log(card)
  \/ \E s \in Candidates : FoundSolution(s)
  \/ \E card \in DealtCards : GiveCard(card)
  \/ \E guess \in Candidates : LogGuessMatch(guess, TRUE, EmptySolution)
  \/ \E guess \in Candidates : \E match \in Shown(guess) : LogGuessMatch(guess, FALSE, match)

SpecDeal == Init /\ [][NextDeal]_vars

\* ---------------------------------------------- SolutionMatcher operations
\* The cards dealt and guessed in SpecMatch, and the guesses: any slot may
\* be unset.
MatchCards == OtherCards \cup {Card(WEAPON, 1)}
SlotChoices(t) == {NoCard} \cup {c \in MatchCards : c.type = t}
Guesses ==
  {Solution(c, w, r) : c \in SlotChoices(CHARACTER), w \in SlotChoices(WEAPON),
                       r \in SlotChoices(ROOM)}

CompareToHand(guess) ==
  LET m == compare_to_hand(hand, guess) IN
  /\ last' = [NoOp EXCEPT !.op = "compare_to_hand", !.guess = guess,
                          !.ret = m.ret, !.exc = m.exc]
  /\ UNCHANGED <<hand, log_book, room, position, remaining_path, journey>>

ShowCard(guess) ==
  LET m == show_card(hand, guess) IN
  /\ last' = [NoOp EXCEPT !.op = "show_card", !.guess = guess,
                          !.ret = m.ret, !.isNone = m.isNone, !.exc = m.exc]
  /\ UNCHANGED <<hand, log_book, room, position, remaining_path, journey>>

NextMatch ==
  \/ \E card \in MatchCards : GiveCard(card)
  \/ \E guess \in Guesses : CompareToHand(guess)
  \/ \E guess \in Guesses : ShowCard(guess)

SpecMatch == Init /\ [][NextMatch]_vars

\* ----------------------------------------------------------------- movement
\* The fields that moving reads and writes, and the exception raised.
Located == [room |-> room, position |-> position, remaining_path |-> remaining_path,
            exc |-> NoExc]

\* enter_room that keeps the coordinate.
player_enter_room_keep(m, r) == [m EXCEPT !.room = r]

\* Player.enter_room.
player_enter_room(m, r) == [m EXCEPT !.room = r, !.position = NoPosition]

\* ComputerPlayer.enter_room that keeps the remainder.
enter_room_keep(m, r) == player_enter_room(m, r)

\* ComputerPlayer.enter_room.
enter_room(m, r) == [player_enter_room(m, r) EXCEPT !.remaining_path = NoPath]

\* The loop of move_path: a step of an unknown kind ends it by an exception
\* (raise Expection, an undefined name: NameError) with the steps before it
\* walked.
RECURSIVE walk(_, _)
walk(m, path) ==
  IF path = <<>> THEN m
  ELSE LET p == Head(path) IN
    IF p.kind = "Space"
      THEN walk([m EXCEPT !.room = NoRoom, !.position = <<p.row, p.col>>], Tail(path))
    ELSE IF p.kind = "RoomPosition" THEN walk(enter_room(m, p.room), Tail(path))
    ELSE [m EXCEPT !.exc = "NameError"]

\* move_path that walks the path before it compares its distance to the roll.
move_path_walk_first(m, roll, room_path) ==
  IF roll < room_path.distance THEN [walk(m, room_path.path) EXCEPT !.exc = "Exception"]
  ELSE walk(m, room_path.path)

move_path(m, roll, room_path) ==
  IF roll < room_path.distance THEN [m EXCEPT !.exc = "Exception"]
  ELSE walk(m, room_path.path)

\* path[:n] and path[n:] of Python, n >= 0.
Take(path, n) == SubSeq(path, 1, IF n < Len(path) THEN n ELSE Len(path))
Drop(path, n) == SubSeq(path, n + 1, Len(path))

\* _use_remaining_roll that keeps path[roll + 1:] as the remainder.
use_remaining_roll_skip(rp, roll) ==
  IF rp.distance > roll
    THEN [remaining_path |-> RoomPath(rp.room, Drop(rp.path, roll + 1)),
          path |-> RoomPath(rp.room, Take(rp.path, roll))]
    ELSE [remaining_path |-> NoPath, path |-> rp]

\* _use_remaining_roll that returns path[:roll] and keeps the whole remainder.
use_remaining_roll_stall(rp, roll) ==
  IF rp.distance > roll
    THEN [remaining_path |-> rp, path |-> RoomPath(rp.room, Take(rp.path, roll))]
    ELSE [remaining_path |-> NoPath, path |-> rp]

\* _use_remaining_roll(roll): the remainder kept and the path returned.
use_remaining_roll(rp, roll) ==
  IF rp.distance > roll
    THEN [remaining_path |-> RoomPath(rp.room, Drop(rp.path, roll)),
          path |-> RoomPath(rp.room, Take(rp.path, roll))]
    ELSE [remaining_path |-> NoPath, path |-> rp]

\* use_roll that keeps path[roll - 1:] as the remainder.
use_roll_chosen_overlap(path, roll) ==
  IF path.distance > roll
    THEN [remaining_path |-> RoomPath(path.room, Drop(path.path, roll - 1)),
          path |-> RoomPath(path.room, Take(path.path, roll))]
    ELSE [remaining_path |-> NoPath, path |-> path]

\* use_roll that keeps the remainder and returns the whole path.
use_roll_chosen_whole(path, roll) ==
  IF path.distance > roll
    THEN [remaining_path |-> RoomPath(path.room, Drop(path.path, roll)),
          path |-> path]
    ELSE [remaining_path |-> NoPath, path |-> path]

\* use_roll(roll) without a remainder, after random.choice gave path.
use_roll_chosen(path, roll) ==
  IF path.distance > roll
    THEN [remaining_path |-> RoomPath(path.room, Drop(path.path, roll)),
          path |-> RoomPath(path.room, Take(path.path, roll))]
    ELSE [remaining_path |-> NoPath, path |-> path]

\* _get_unknown_rooms.
get_unknown_rooms(lb) == {c.value : c \in get(lb, ROOM, FALSE)}

\* use_roll(roll): chosen is the path random.choice gives when no remainder
\* is carried (NoPath otherwise).
use_roll(rem, roll, chosen) ==
  IF rem # NoPath THEN use_remaining_roll(rem, roll) ELSE use_roll_chosen(chosen, roll)

\* enter_room(room), called from outside a turn.
EnterRoom(r) ==
  LET m == enter_room(Located, r) IN
  /\ room' = m.room
  /\ position' = m.position
  /\ remaining_path' = m.remaining_path
  /\ last' = [NoOp EXCEPT !.op = "enter_room"]
  /\ UNCHANGED <<hand, log_book, journey>>

\* move_path(roll, room_path), called with any path.
MovePath(roll, room_path) ==
  LET m == move_path(Located, roll, room_path) IN
  /\ room' = m.room
  /\ position' = m.position
  /\ remaining_path' = m.remaining_path
  /\ last' = [NoOp EXCEPT !.op = "move_path", !.roll = roll, !.path = room_path,
                          !.exc = m.exc]
  /\ UNCHANGED <<hand, log_book, journey>>

\* take_turn(PlayerAction.MOVE) with roll_dice() = roll: use_roll, then
\* move_path of the path it returns.
Move(roll, chosen) ==
  /\ \/ remaining_path # NoPath /\ chosen = NoPath
     \/ /\ remaining_path = NoPath
        /\ room # NoRoom \/ position # NoPosition
        /\ chosen \in room_paths(get_unknown_rooms(log_book))
  /\ LET u == use_roll(remaining_path, roll, chosen)
         m == move_path([Located EXCEPT !.remaining_path = u.remaining_path], roll, u.path)
     IN /\ room' = m.room
        /\ position' = m.position
        /\ remaining_path' = m.remaining_path
  /\ UNCHANGED <<hand, log_book>>

\* The turn with its history kept: the roll, the path use_roll returned, the
\* exception of move_path, and the journey.
TakeTurnMove(roll, chosen) ==
  /\ Move(roll, chosen)
  /\ LET u == use_roll(remaining_path, roll, chosen)
         m == move_path([Located EXCEPT !.remaining_path = u.remaining_path], roll, u.path)
     IN /\ last' = [NoOp EXCEPT !.op = "take_turn_move", !.roll = roll,
                                !.path = u.path, !.exc = m.exc]
        /\ journey' =
             IF remaining_path # NoPath
               THEN [journey EXCEPT !.rolls = Append(@, roll), !.walked = @ \o u.path.path]
               ELSE [chosen |-> chosen, rolls |-> <<roll>>, walked |-> u.path.path]

\* The turn with only its name kept.
TakeTurnMoveOnly(roll, chosen) ==
  /\ Move(roll, chosen)
  /\ last' = [NoOp EXCEPT !.op = "take_turn_move"]
  /\ UNCHANGED journey

\* take_turn(PlayerAction.MOVE) of a player that is nowhere: use_roll reads
\* self.position[0] of a position that is None.
TakeTurnMoveNowhere ==
  /\ remaining_path = NoPath /\ room = NoRoom /\ position = NoPosition
  /\ last' = [NoOp EXCEPT !.op = "take_turn_move", !.exc = "TypeError"]
  /\ UNCHANGED <<hand, log_book, room, position, remaining_path, journey>>

Rolls == 1..MaxRoll

\* The paths handed to move_path directly: any steps, up to MaxPathLen.
StepChoices == {Space(1, 1), Space(1, 2), RoomPosition(1), RoomPosition(2), OtherStep}
RECURSIVE StepSeqs(_)
StepSeqs(n) ==
  IF n = 0 THEN {<<>>}
  ELSE LET shorter == StepSeqs(n - 1) IN
       shorter \cup {Append(q, x) : q \in {y \in shorter : Len(y) = n - 1}, x \in StepChoices}
DirectPaths == {RoomPath(1, q) : q \in StepSeqs(MaxPathLen)}

\* enter_room and move_path called directly.
NextMove ==
  \/ \E r \in 1..MaxTargets : EnterRoom(r)
  \/ \E roll \in Rolls : \E rp \in DirectPaths : MovePath(roll, rp)

SpecMove == Init /\ [][NextMove]_vars

\* The player is placed in a room and takes MOVE turns.
NextTurns ==
  \/ \E r \in 1..MaxTargets : EnterRoom(r)
  \/ \E roll \in Rolls :
       \E chosen \in room_paths(get_unknown_rooms(log_book)) \cup {NoPath} :
         TakeTurnMove(roll, chosen)
  \/ TakeTurnMoveNowhere

SpecTurns == Init /\ [][NextTurns]_vars

\* Repeated MOVE turns: the player is placed in a room only between journeys,
\* and the director keeps giving turns to a player that holds a remainder.
PlaceInRoom(r) == remaining_path = NoPath /\ EnterRoom(r)

ContinueTurn == remaining_path # NoPath /\ \E roll \in Rolls : TakeTurnMove(roll, NoPath)

MoveTurn ==
  \E roll \in Rolls :
    \E chosen \in room_paths(get_unknown_rooms(log_book)) \cup {NoPath} :
      TakeTurnMove(roll, chosen)

NextJourney ==
  \/ \E r \in 1..MaxTargets : PlaceInRoom(r)
  \/ MoveTurn
  \/ TakeTurnMoveNowhere

SpecJourney == Init /\ [][NextJourney]_vars /\ WF_vars(ContinueTurn)

\* ------------------------------------------------------------- Player turns
ACCUSATION == "ACCUSATION"
GUESS == "GUESS"
MOVE == "MOVE"

\* ComputerPlayer.should_guess_current_room, r the room the player is in.
should_guess_current_room(lb, h, r) ==
  \/ ~is_room_known(lb, r)
  \/ (lb.solution.room # NoCard /\ has_card(h, Card(ROOM, r)))

\* next_turn_action that looks at the room before the solution.
next_turn_action_room_first(lb, h, r) ==
  IF r = NoRoom THEN MOVE
  ELSE IF has_solution(lb) THEN ACCUSATION
  ELSE IF ~should_guess_current_room(lb, h, r) THEN MOVE
  ELSE GUESS

\* next_turn_action that moves only from a room the policy says no to.
next_turn_action_and(lb, h, r) ==
  IF has_solution(lb) THEN ACCUSATION
  ELSE IF r # NoRoom /\ ~should_guess_current_room(lb, h, r) THEN MOVE
  ELSE GUESS

\* Player.next_turn_action; the policy is not asked when room is None.
next_turn_action(lb, h, r) ==
  IF has_solution(lb) THEN ACCUSATION
  ELSE IF r = NoRoom \/ ~should_guess_current_room(lb, h, r) THEN MOVE
  ELSE GUESS

\* decide_weapon_guess / decide_character_guess: the cards it can return.
decide_guess(lb, t) ==
  IF Slot(lb.solution, t) # NoCard THEN {Slot(lb.solution, t)}
  ELSE LET candidates == get(lb, t, FALSE) IN
       {c \in candidates : Cardinality({d \in candidates : d.value < c.value}) < MaxChoices}

\* take_turn() choosing ACCUSATION: the solution goes to the director.
TakeTurnAccuse ==
  /\ next_turn_action(log_book, hand, room) = ACCUSATION
  /\ last' = [NoOp EXCEPT !.op = "make_accusation"]
  /\ UNCHANGED <<hand, log_book, room, position, remaining_path, journey>>

\* take_turn() choosing GUESS: make_guess with the cards the policy picks and
\* the director's answer (None, or one card of the guess).
TakeTurnGuess(isNone) ==
  /\ next_turn_action(log_book, hand, room) = GUESS
  /\ \E weapon \in decide_guess(log_book, WEAPON) :
       \E character \in decide_guess(log_book, CHARACTER) :
         LET guess == Solution(character, weapon, Card(ROOM, room)) IN
         \E match \in (IF isNone THEN {EmptySolution} ELSE Shown(guess)) :
           LET r == log_guess_match(log_book, guess, isNone, match) IN
           /\ log_book' = r.lb
           /\ last' = [NoOp EXCEPT !.op = "make_guess", !.isNone = isNone, !.exc = r.exc]
  /\ UNCHANGED <<hand, room, position, remaining_path, journey>>

\* The same turn with the guess and the director's answer kept.
TakeTurnGuessKept(isNone) ==
  /\ next_turn_action(log_book, hand, room) = GUESS
  /\ \E weapon \in decide_guess(log_book, WEAPON) :
       \E character \in decide_guess(log_book, CHARACTER) :
         LET guess == Solution(character, weapon, Card(ROOM, room)) IN
         \E match \in (IF isNone THEN {EmptySolution} ELSE Shown(guess)) :
           LET r == log_guess_match(log_book, guess, isNone, match) IN
           /\ log_book' = r.lb
           /\ last' = [NoOp EXCEPT !.op = "make_guess", !.isNone = isNone, !.exc = r.exc,
                                   !.guess = guess, !.ret = match]
  /\ UNCHANGED <<hand, room, position, remaining_path, journey>>

Eliminated == {c \in Deck : log_book.log_book[c]}

\* In Spec the dice roll MaxRoll and the board offers, to each target, its
\* nearest and its farthest path.
NearOrFar(paths) == {rp \in paths : rp.distance = 1 \/ rp.distance = MaxDistance}

\* The player is dealt cards, is placed in a room and takes turns; a MOVE
\* turn is take_turn() choosing MOVE or take_turn(PlayerAction.MOVE).
Next ==
  \/ \E card \in DealtCards : Cardinality(Eliminated) < MaxEliminated /\ GiveCard(card)
  \/ \E r \in 1..MaxTargets : EnterRoom(r)
  \/ \E chosen \in NearOrFar(room_paths(get_unknown_rooms(log_book))) \cup {NoPath} :
       TakeTurnMoveOnly(MaxRoll, chosen)
  \/ TakeTurnMoveNowhere
  \/ TakeTurnGuess(TRUE)
  \/ Cardinality(Eliminated) < MaxEliminated /\ TakeTurnGuess(FALSE)
  \/ TakeTurnAccuse

Spec == Init /\ [][Next]_vars

\* The player is dealt the room cards in play, is placed in a room and
\* guesses, refuted or not, as long as its policy says GUESS.
DealtRooms == {c \in DealtCards : c.type = ROOM}

NextGuess ==
  \/ \E card \in DealtRooms : GiveCard(card)
  \/ \E r \in 1..MaxTargets : EnterRoom(r)
  \/ TakeTurnGuessKept(TRUE)
  \/ TakeTurnGuessKept(FALSE)

SpecGuess == Init /\ [][NextGuess]_vars

\* ------------------------------------------------------------------ claims

\* C1: in every state reached by log and found_solution calls, a category with
\* exactly one card not eliminated in the per-card map has that card in its
\* Solution slot.
C1_OneLeftIsSolution ==
  \A t \in CardTypes :
    Cardinality(get(log_book, t, FALSE)) = 1 => get(log_book, t, FALSE) = {Slot(log_book.solution, t)}

\* C2: found_solution(candidate) on a LogBook with all three slots unset leaves
\* the Solution equal to the candidate and, in each category, only the
\* candidate's card not eliminated (get(category, False) is that card alone).
C2_FoundSolutionEliminatesOthers ==
  [][\A s \in Candidates :
       (is_empty(log_book.solution) /\ FoundSolution(s))
         => /\ log_book'.solution = s
            /\ \A t \in CardTypes : get(log_book', t, FALSE) = {Slot(s, t)}]_vars

\* C3: a card eliminated in the per-card map is eliminated in every later state.
C3_EliminatedMonotone ==
  [][\A c \in Deck : log_book.log_book[c] => log_book'.log_book[c]]_vars

\* C3 witness: cards were eliminated before and after a found_solution call.
C3_Witness ==
  /\ last.op = "log"
  /\ is_complete(log_book.solution)
  /\ Cardinality({c \in Deck : log_book.log_book[c]}) >= 3

\* C9: with only log calls, once all but one card of a category are
\* eliminated and no card of the other categories was logged, that category's
\* slot holds the remaining card and the other two slots are unset.
C9_LastButOneDeduces ==
  \A t \in CardTypes :
    (/\ Cardinality(get(log_book, t, FALSE)) = 1
     /\ \A u \in CardTypes \ {t} : get(log_book, u, TRUE) = {})
      => /\ Slot(log_book.solution, t) = TheOne(get(log_book, t, FALSE))
         /\ \A u \in CardTypes \ {t} : Slot(log_book.solution, u) = NoCard

\* C9 witness: five of the six weapons were logged, the fifth just now.
C9_Witness ==
  /\ last.op = "log"
  /\ Cardinality(get(log_book, WEAPON, TRUE)) = NumWeapons - 1
  /\ get(log_book, CHARACTER, TRUE) = {} /\ get(log_book, ROOM, TRUE) = {}
  /\ log_book.solution.weapon \in get(log_book, WEAPON, FALSE)

\* C4: a Solution slot that is set keeps its card through every later log,
\* found_solution, give_card and guess-resolution step.
C4_SlotNeverOverwritten ==
  [][\A t \in CardTypes :
       Slot(log_book.solution, t) # NoCard
         => Slot(log_book'.solution, t) = Slot(log_book.solution, t)]_vars

\* C4 witness: the weapon slot was set, and weapons were logged afterwards
\* until a different weapon is the only one not eliminated.
C4_Witness ==
  /\ log_book.solution.weapon # NoCard
  /\ Cardinality(get(log_book, WEAPON, FALSE)) = 1
  /\ log_book.solution.weapon \notin get(log_book, WEAPON, FALSE)
  /\ ~is_complete(log_book.solution)

\* The slots of a candidate whose card the hand holds, the others unset.
HeldSlots(h, s) ==
  Solution(IF s.character # NoCard /\ s.character \in h.characters THEN s.character ELSE NoCard,
           IF s.weapon # NoCard /\ s.weapon \in h.weapons THEN s.weapon ELSE NoCard,
           IF s.room # NoCard /\ s.room \in h.rooms THEN s.room ELSE NoCard)

\* C7: compare_to_hand of a Hand and a candidate, any of whose slots may be
\* unset, does not fail, returns exactly the candidate's slots whose card the
\* Hand holds, and leaves the Hand unchanged.
C7_CompareToHandPartial ==
  [][\A guess \in Guesses :
       CompareToHand(guess)
         => /\ last'.exc = NoExc
            /\ last'.ret = HeldSlots(hand, guess)
            /\ hand' = hand]_vars

Populated(s) == {t \in CardTypes : Slot(s, t) # NoCard}

\* C8: show_card of a complete guess returns None when the Hand holds none of
\* its three cards, and otherwise a Solution with exactly one populated slot:
\* the character if held, else the weapon if held, else the room.
C8_ShowCardOneSlot ==
  (last.op = "show_card" /\ is_complete(last.guess))
    => LET held == HeldSlots(hand, last.guess) IN
       /\ last.exc = NoExc
       /\ last.isNone <=> is_empty(held)
       /\ ~last.isNone =>
            /\ Cardinality(Populated(last.ret)) = 1
            /\ last.ret =
                 IF held.character # NoCard THEN [EmptySolution EXCEPT !.character = held.character]
                 ELSE IF held.weapon # NoCard THEN [EmptySolution EXCEPT !.weapon = held.weapon]
                 ELSE [EmptySolution EXCEPT !.room = held.room]

\* C8 witness: the Hand holds all three cards of the guess and shows the
\* character alone.
C8_Witness ==
  /\ last.op = "show_card"
  /\ is_complete(last.guess)
  /\ HeldSlots(hand, last.guess) = last.guess
  /\ last.ret = [EmptySolution EXCEPT !.character = last.guess.character]

\* C6: from no remainder, a MOVE turn with roll 3 and a chosen path of
\* distance 5 ends outside the target room with a remainder of distance 2 to
\* that room; the MOVE turn that follows, with roll 2, walks the remainder,
\* enters the target room and clears the remainder.
C6_TwoTurnMove ==
  [][/\ \A chosen \in room_paths(get_unknown_rooms(log_book)) :
          (remaining_path = NoPath /\ chosen.distance = 5 /\ TakeTurnMove(3, chosen))
            => /\ room' # chosen.room
               /\ remaining_path' # NoPath
               /\ remaining_path'.distance = 2
               /\ remaining_path'.room = chosen.room
     /\ (/\ last.op = "take_turn_move"
         /\ journey.chosen.distance = 5
         /\ journey.rolls = <<3>>
         /\ TakeTurnMove(2, NoPath))
          => /\ last'.path = remaining_path
             /\ room' = journey.chosen.room
             /\ position' = NoPosition
             /\ remaining_path' = NoPath]_vars

\* C6 witness: the second turn has ended in the target room.
C6_Witness ==
  /\ last.op = "take_turn_move"
  /\ journey.chosen.distance = 5
  /\ journey.rolls = <<3, 2>>
  /\ journey.walked = journey.chosen.path
  /\ room = journey.chosen.room
  /\ remaining_path = NoPath

LocationIsOne == ~(room # NoRoom /\ position # NoPosition)

\* C10: after reset and any enter_room and move_path steps, room and
\* position are never both set; a move_path that ends by a room-entry step
\* leaves position unset, one that ends by a free-space step leaves room
\* unset, and enter_room leaves position unset.
C10_RoomOrPosition ==
  /\ LocationIsOne
  /\ (last.op = "enter_room") => (room # NoRoom /\ position = NoPosition)
  /\ (last.op = "move_path" /\ last.exc = NoExc /\ last.path.distance > 0)
       => LET p == last.path.path[last.path.distance] IN
          /\ p.kind = "RoomPosition" => (room = p.room /\ position = NoPosition)
          /\ p.kind = "Space" => (room = NoRoom /\ position = <<p.row, p.col>>)

\* C10 witness: a path that enters a room and then leaves it to a free space
\* was walked.
C10_Witness ==
  /\ last.op = "move_path" /\ last.exc = NoExc
  /\ last.path.distance = 2
  /\ last.path.path[1].kind = "RoomPosition"
  /\ last.path.path[2].kind = "Space"
  /\ room = NoRoom /\ position # NoPosition

\* C5: in every state the player reaches, in a room or on a free coordinate,
\* whatever the should-guess policy says, next_turn_action returns ACCUSATION
\* if and only if has_solution() is true, and has_solution() is true exactly
\* when all three Solution slots are set; an accusation is made only then.
C5_AccusationIffSolution ==
  /\ (next_turn_action(log_book, hand, room) = ACCUSATION) <=> has_solution(log_book)
  /\ has_solution(log_book) <=> (\A t \in CardTypes : Slot(log_book.solution, t) # NoCard)
  /\ last.op = "make_accusation" => has_solution(log_book)

\* The solution is complete while the player stands on a free coordinate.
C5_Witness ==
  /\ has_solution(log_book)
  /\ room = NoRoom
  /\ position # NoPosition
  /\ next_turn_action(log_book, hand, room) = ACCUSATION

\* C11: move_path(roll, path) with a path whose distance is greater than roll
\* raises an exception and leaves room, position, the Hand and the LogBook as
\* they were before the call: no step of the path is walked.
C11_LongPathRejected ==
  [][(last'.op = "move_path" /\ last'.path.distance > last'.roll)
       => /\ last'.exc = "Exception"
          /\ room' = room
          /\ position' = position
          /\ hand' = hand
          /\ log_book' = log_book]_vars

\* C11 witness: a path longer than the roll, whose first step would have left
\* the room the player is in, was rejected.
C11_Witness ==
  /\ last.op = "move_path"
  /\ last.path.distance > last.roll
  /\ last.exc = "Exception"
  /\ room # NoRoom
  /\ last.path.path[1].kind = "Space"

\* C12: while has_solution() is false, next_turn_action returns MOVE when the
\* player is not in a room or should_guess_current_room() is false, and GUESS
\* otherwise; a player that is not in a room gets MOVE without the policy
\* being asked, and a guess is only ever made from a room.
C12_MoveOrGuess ==
  /\ ~has_solution(log_book) =>
       /\ room = NoRoom => next_turn_action(log_book, hand, room) = MOVE
       /\ room # NoRoom =>
            next_turn_action(log_book, hand, room) =
              IF should_guess_current_room(log_book, hand, room) THEN GUESS ELSE MOVE
  /\ last.op = "make_guess" => room # NoRoom

\* C12 witness: the player stands in a room whose card it was dealt, so that
\* the policy says no and the action is MOVE.
C12_Witness ==
  /\ ~has_solution(log_book)
  /\ room # NoRoom
  /\ has_card(hand, Card(ROOM, room))
  /\ ~should_guess_current_room(log_book, hand, room)
  /\ next_turn_action(log_book, hand, room) = MOVE

\* C13: over consecutive MOVE turns with positive rolls, each turn walks the
\* first min(roll, distance left) steps of what is left of the chosen path,
\* the steps walked so far followed by the remainder are the chosen path, the
\* remainder keeps the target room of the chosen path, and when no remainder
\* is left the steps walked are exactly the chosen path.
C13_SplitPreservesPath ==
  [][(last'.op = "take_turn_move" /\ last'.exc = NoExc) =>
       LET before == IF remaining_path # NoPath THEN remaining_path ELSE journey'.chosen
           n == IF last'.roll < before.distance THEN last'.roll ELSE before.distance
       IN /\ last'.path.path = SubSeq(before.path, 1, n)
          /\ last'.path.room = journey'.chosen.room
          /\ remaining_path # NoPath => journey'.chosen = journey.chosen
          /\ remaining_path' # NoPath =>
               /\ remaining_path'.room = journey'.chosen.room
               /\ journey'.walked \o remaining_path'.path = journey'.chosen.path
          /\ remaining_path' = NoPath => journey'.walked = journey'.chosen.path]_vars

\* C13 witness: a path of distance 5 was walked in three turns.
C13_Witness ==
  /\ last.op = "take_turn_move"
  /\ journey.chosen.distance = 5
  /\ Len(journey.rolls) = 3
  /\ journey.walked = journey.chosen.path
  /\ remaining_path = NoPath
  /\ room = journey.chosen.room

\* C14: in a MOVE turn with roll r >= 1, the path use_roll(r) returns, freshly
\* chosen or continued from a remainder, has a distance of at most r, and
\* move_path does not raise "Path is longer than roll".
C14_PathWithinRoll ==
  last.op = "take_turn_move" =>
    /\ last.exc # "Exception"
    /\ last.exc = NoExc => (last.roll >= 1 /\ last.path.distance <= last.roll)

\* C14 witness: a continued remainder longer than the roll was cut to the roll.
C14_Witness ==
  /\ last.op = "take_turn_move"
  /\ last.exc = NoExc
  /\ Len(journey.rolls) = 2
  /\ last.path.distance = last.roll
  /\ remaining_path # NoPath

\* C15 as stated: at every turn boundary a player holding a remainder is not
\* in a room and its next action is MOVE.
C15_RemainderMeansMove ==
  remaining_path # NoPath =>
    /\ room = NoRoom
    /\ next_turn_action(log_book, hand, room) = MOVE

\* C15, amended: at every turn boundary a player holding a remainder is not
\* in a room (entering a room, by enter_room or by the last step of a walked
\* path, clears the remainder); its next action is never GUESS: it is MOVE,
\* or ACCUSATION when the solution is complete; and a MOVE turn taken with a
\* remainder continues it to the same room rather than choosing a destination.
C15_RemainderOutsideRoom ==
  [][/\ remaining_path' # NoPath =>
          /\ room' = NoRoom
          /\ next_turn_action(log_book', hand', room') =
               IF has_solution(log_book') THEN ACCUSATION ELSE MOVE
     /\ room' # NoRoom => remaining_path' = NoPath
     /\ (remaining_path # NoPath /\ last'.op = "take_turn_move") =>
          IF remaining_path' # NoPath
            THEN remaining_path'.room = remaining_path.room
            ELSE room' = remaining_path.room]_vars

\* C15 witness: a remainder is held, on a free coordinate, by a player whose
\* solution is complete.
C15_Witness ==
  /\ remaining_path # NoPath
  /\ room = NoRoom
  /\ position # NoPosition
  /\ has_solution(log_book)

\* C16: once a path to a target room is chosen, under repeated MOVE turns with
\* rolls >= 1 every turn leaves a remainder strictly shorter than the one it
\* started with (or none) to the same room of the same chosen path, and the
\* player eventually is in the target room with the remainder cleared.
C16_JourneyEnds ==
  /\ [][(remaining_path # NoPath /\ last'.op = "take_turn_move") =>
          \/ remaining_path' = NoPath
          \/ (/\ remaining_path'.distance < remaining_path.distance
              /\ remaining_path'.room = remaining_path.room
              /\ journey'.chosen = journey.chosen)]_vars
  /\ (remaining_path # NoPath /\ remaining_path.room = journey.chosen.room)
       ~> (room = journey.chosen.room /\ remaining_path = NoPath)

\* C16 witness: a path of distance 5 was walked to its room in five turns.
C16_Witness ==
  /\ journey.chosen.distance = 5
  /\ journey.rolls = <<1, 1, 1, 1, 1>>
  /\ room = journey.chosen.room
  /\ remaining_path = NoPath

\* C17: when a guess made through next_turn_action (GUESS) and make_guess is
\* refuted by nobody, the Solution of the LogBook is complete right after it,
\* its weapon and character slots are the guessed weapon and character, and
\* next_turn_action returns ACCUSATION.
C17_UnrefutedGuessAccuses ==
  (last.op = "make_guess" /\ last.isNone) =>
    /\ is_complete(log_book.solution)
    /\ log_book.solution.weapon = last.guess.weapon
    /\ log_book.solution.character = last.guess.character
    /\ next_turn_action(log_book, hand, room) = ACCUSATION

\* C17 witness: the unrefuted guess came after five guesses refuted by their
\* weapon, so that the guessed weapon is the slot deduced from them.
C17_Witness ==
  /\ last.op = "make_guess" /\ last.isNone
  /\ Cardinality(get(log_book, WEAPON, TRUE)) >= 5
  /\ log_book.solution.weapon = last.guess.weapon
  /\ next_turn_action(log_book, hand, room) = ACCUSATION

\* The one card of a match with one slot set.
ShownCard(match) ==
  CHOOSE c \in {match.character, match.weapon, match.room} : c # NoCard

\* C18: resolving a guess refuted by a match with exactly one slot set marks
\* exactly the card shown as eliminated in the LogBook: the flag of every
\* other card is as before, the unset slots do nothing, and the Hand, room
\* and position are as before.
C18_RefutedGuessMarksOne ==
  [][(last'.op = "make_guess" /\ ~last'.isNone) =>
       /\ Cardinality({t \in CardTypes : Slot(last'.ret, t) # NoCard}) = 1
       /\ log_book'.log_book = [log_book.log_book EXCEPT ![ShownCard(last'.ret)] = TRUE]
       /\ hand' = hand
       /\ room' = room
       /\ position' = position]_vars

\* C18 witness: the room guessed from was shown, after a character was.
C18_Witness ==
  /\ last.op = "make_guess" /\ ~last.isNone
  /\ last.ret.room # NoCard
  /\ log_book.log_book[last.ret.room]
  /\ log_book.log_book[Card(CHARACTER, 1)]
  /\ ~log_book.log_book[last.guess.weapon]

\* C19: after any sequence of log calls on deck cards from a fresh LogBook, a
\* category whose Solution slot is unset has at least two cards that are not
\* eliminated; so no category is left with no candidate and no slot, and the
\* cards decide_weapon_guess and decide_character_guess pick from are never
\* none.
C19_UnsetSlotHasTwo ==
  /\ \A t \in CardTypes :
       Slot(log_book.solution, t) = NoCard => Cardinality(get(log_book, t, FALSE)) >= 2
  /\ decide_guess(log_book, WEAPON) # {}
  /\ decide_guess(log_book, CHARACTER) # {}

\* C19 witness: every card of a category was logged, and its slot holds the
\* card that was logged last or the one deduced before it.
C19_Witness ==
  \E t \in CardTypes :
    /\ get(log_book, t, FALSE) = {}
    /\ Slot(log_book.solution, t) # NoCard

\* C20: after any sequence of log and found_solution calls, each per-category
\* array has one entry per card of its category (6 weapons, 6 characters,
\* 9 rooms), so that log of any deck card finds the entry of its own value,
\* and no log call ends by an index error.
C20_ArraysKeepShape ==
  /\ Len(log_book.weapons) = NumWeapons
  /\ Len(log_book.characters) = NumCharacters
  /\ Len(log_book.rooms) = NumRooms
  /\ \A card \in Deck : log(log_book, card).exc = NoExc
  /\ last.op = "log" => last.exc = NoExc

====
